---- MODULE Spec2Model ----
(***************************************************************************)
(* Birthday reminder: the recurrence calculator (formatBirthdayDate,       *)
(* daysUntil, ageTurning) and the HomePage component around it (startup    *)
(* load from the local cache and the remote table, the add/edit form,      *)
(* delete, the remote write calls and their failure handlers).             *)
(*                                                                         *)
(* Two specifications share the variables:                                 *)
(*   CalcSpec  one render of one record at one clock reading: the three    *)
(*             pure functions applied to inputs drawn from bounded sets;   *)
(*   Spec      the component as a state machine.                           *)
(***************************************************************************)
EXTENDS Integers, Sequences, FiniteSets, TLC

VARIABLES
    now,            \* the ambient clock, new Date(): [year, month, day, hour]
    rec,            \* CalcSpec: the record being rendered
    out,            \* CalcSpec: what the render computed for rec
    birthdays,      \* useState<Birthday[]>
    form,           \* name, day, month, year, timezone, photoUrl input state
    editingId,      \* useState<string | null>, None or <<id>>
    error,          \* useState<string | null>, None or <<message>>
    errorTimers,    \* pending setTimeout(() => setError(null), 3000)
    reported,       \* the control the browser reported invalid on submit
    supabaseStatus, \* useState("Checking Supabase...")
    loadPc,         \* position of the async loadData()
    cache,          \* window.localStorage["birthdays-v1"]
    remote,         \* the remote "birthdays" table
    inflight,       \* remote write calls issued and not yet settled
    ops,            \* number of user list operations so far (history)
    cache0,         \* the records the local cache held before startup (history)
    created         \* ids created by the form and not deleted by the user (history)

calcVars == <<rec, out>>
appVars  == <<birthdays, form, editingId, error, errorTimers, reported,
              supabaseStatus, loadPc, cache, remote, inflight, ops,
              cache0, created>>
vars     == <<now, rec, out, birthdays, form, editingId, error, errorTimers,
              reported, supabaseStatus, loadPc, cache, remote,
              inflight, ops, cache0, created>>

(***************************************************************************)
(* Bounds of the model.                                                    *)
(***************************************************************************)
NumYears == 2       \* CalcSpec reads the clock in 2023 .. 2023 + NumYears - 1
MaxOps == 2         \* Spec: user list operations (add, edit, delete)

(***************************************************************************)
(* JavaScript values.                                                      *)
(***************************************************************************)
None == <<>>                    \* undefined / null
Some(x) == <<x>>
IsSome(o) == o # None

Range(s) == {s[i] : i \in 1..Len(s)}

\* arr[i] of a JavaScript array: undefined outside 0 .. length - 1.
ArrayAt(arr, i) == IF i \in 0..(Len(arr) - 1) THEN Some(arr[i + 1]) ELSE None

\* Math.round(num / den) for den > 0: floor(num / den + 1/2).
MathRound(num, den) == (2 * num + den) \div (2 * den)

(***************************************************************************)
(* Date in local time.  A Date is held as the number of hours from         *)
(* 0001-01-01T00:00 UTC.  new Date(y, monthIndex, d) normalises an         *)
(* overflowing day into the following month, which the day ordinal does by *)
(* itself.  The local zone keeps daylight-saving time for part of the      *)
(* year, so two local midnights need not be a multiple of 24 hours apart.  *)
(***************************************************************************)
HoursPerDay == 24

IsLeap(y) == (y % 4 = 0 /\ y % 100 # 0) \/ y % 400 = 0

DaysBeforeYear(y) ==
    365 * (y - 1) + ((y - 1) \div 4) - ((y - 1) \div 100) + ((y - 1) \div 400)

CumDays == <<0, 31, 59, 90, 120, 151, 181, 212, 243, 273, 304, 334>>

DaysBeforeMonth(y, m) == CumDays[m] + (IF m > 2 /\ IsLeap(y) THEN 1 ELSE 0)

\* Hours the local clock is ahead of standard time on day-of-year doy.
DstHours(doy) == IF doy \in 90..303 THEN 1 ELSE 0

\* new Date(year, monthIndex, day).getTime(), in hours.
\* A monthIndex outside 0..11 carries into the year.
DateValue(year, monthIndex, day) ==
    LET y == year + (monthIndex \div 12)
        doy == DaysBeforeMonth(y, (monthIndex % 12) + 1) + (day - 1)
    IN  HoursPerDay * (DaysBeforeYear(y) + doy) - DstHours(doy)

\* new Date().getTime(), in hours, for the clock reading t.
InstantValue(t) == DateValue(t.year, t.month - 1, t.day) + t.hour

(***************************************************************************)
(* The recurrence calculator.                                              *)
(***************************************************************************)
MONTH_NAMES ==
    <<"January", "February", "March", "April", "May", "June",
      "July", "August", "September", "October", "November", "December">>

formatBirthdayDate_OffByOne(b) ==
    LET hit == ArrayAt(MONTH_NAMES, b.month)
        monthName == IF IsSome(hit) THEN hit[1]
                     ELSE "Month " \o ToString(b.month)
    IN  ToString(b.day) \o " " \o monthName

formatBirthdayDate(b) ==
    LET hit == ArrayAt(MONTH_NAMES, b.month - 1)
        monthName == IF IsSome(hit) THEN hit[1]
                     ELSE "Month " \o ToString(b.month)
    IN  ToString(b.day) \o " " \o monthName

daysUntil_NotStrict(b, today) ==
    LET todayMidnight == DateValue(today.year, today.month - 1, today.day)
        thisYear == DateValue(today.year, b.month - 1, b.day)
        next == IF thisYear <= todayMidnight
                THEN DateValue(today.year + 1, b.month - 1, b.day)
                ELSE thisYear
    IN  MathRound(next - todayMidnight, HoursPerDay)

daysUntil_Truncating(b, today) ==
    LET todayMidnight == DateValue(today.year, today.month - 1, today.day)
        thisYear == DateValue(today.year, b.month - 1, b.day)
        next == IF thisYear < todayMidnight
                THEN DateValue(today.year + 1, b.month - 1, b.day)
                ELSE thisYear
    IN  (next - todayMidnight) \div HoursPerDay

daysUntil(b, today) ==
    LET todayMidnight == DateValue(today.year, today.month - 1, today.day)
        thisYear == DateValue(today.year, b.month - 1, b.day)
        next == IF thisYear < todayMidnight
                THEN DateValue(today.year + 1, b.month - 1, b.day)
                ELSE thisYear
    IN  MathRound(next - todayMidnight, HoursPerDay)

\* null (None) without a birth year; !b.year also takes the year 0 for none.
ageTurning(b, today) ==
    IF b.year = None \/ b.year = Some(0) THEN None
    ELSE LET age == today.year - b.year[1]
             birthdayThisYear == DateValue(today.year, b.month - 1, b.day)
         IN  Some((IF birthdayThisYear > InstantValue(today) THEN age - 1 ELSE age) + 1)

(***************************************************************************)
(* The calendar, stated apart from Date: used to read the clock forward    *)
(* and to state what the calculator is to return.                          *)
(***************************************************************************)
MonthLengths == <<31, 28, 31, 30, 31, 30, 31, 31, 30, 31, 30, 31>>

DaysInMonth(y, m) == IF m = 2 /\ IsLeap(y) THEN 29 ELSE MonthLengths[m]

ValidMonthDay(m, d) == m \in 1..12 /\ d \in 1..(IF m = 2 THEN 29 ELSE MonthLengths[m])

\* The midnight after the clock reading t.
NextDay(t) ==
    IF t.day < DaysInMonth(t.year, t.month) THEN [t EXCEPT !.day = t.day + 1]
    ELSE IF t.month < 12 THEN [t EXCEPT !.month = t.month + 1, !.day = 1]
    ELSE [t EXCEPT !.year = t.year + 1, !.month = 1, !.day = 1]

(***************************************************************************)
(* CalcSpec: one list item rendered (page.tsx 386-388, 410) for one record *)
(* at one reading of the clock.                                            *)
(***************************************************************************)
ClockHours == {0, 12, 23}

CalcYears == 2023..(2022 + NumYears)

CalcClocks ==
    {t \in [year : CalcYears, month : 1..12, day : 1..31, hour : ClockHours] :
        t.day <= DaysInMonth(t.year, t.month)}

CalcRecords ==
    {[day |-> d, month |-> m, year |-> Some(1985)] :
        <<m, d>> \in {md \in (1..12) \X (1..31) : ValidMonthDay(md[1], md[2])}}
    \cup [day : {5, 15}, month : {5, 8}, year : {None, Some(0)}]
    \cup [day : {5, 15}, month : {0, 13, 14}, year : {None}]

RenderItem(b) ==
    /\ rec = None
    /\ rec' = Some(b)
    /\ out' = Some([days    |-> daysUntil(b, now),
                    turning |-> ageTurning(b, now),
                    label   |-> formatBirthdayDate(b)])
    /\ UNCHANGED now
    /\ UNCHANGED appVars

CalcInit ==
    /\ now \in CalcClocks
    /\ rec = None
    /\ out = None
    /\ birthdays = <<>>
    /\ form = None
    /\ editingId = None
    /\ error = None
    /\ errorTimers = 0
    /\ reported = None
    /\ supabaseStatus = ""
    /\ loadPc = "unmounted"
    /\ cache = None
    /\ remote = {}
    /\ inflight = {}
    /\ ops = 0
    /\ cache0 = None
    /\ created = {}

CalcNext == \E b \in CalcRecords : RenderItem(b)

CalcSpec == CalcInit /\ [][CalcNext]_vars

Rendered == rec # None

(***************************************************************************)
(* What the calculator is to return, stated on the calendar.               *)
(***************************************************************************)
RECURSIVE DaysBefore(_, _)
DaysBefore(y, m) == IF m <= 1 THEN 0 ELSE DaysInMonth(y, m - 1) + DaysBefore(y, m - 1)

\* The day of year y reached by counting d days into month m (1 = 1 January).
DayOfYear(y, m, d) == DaysBefore(y, m) + d

YearLength(y) == IF IsLeap(y) THEN 366 ELSE 365

\* The record's month/day in the clock's year is not strictly earlier than today.
DueThisYear(b, t) == DayOfYear(t.year, b.month, b.day) >= DayOfYear(t.year, t.month, t.day)

OccurrenceYear(b, t) == IF DueThisYear(b, t) THEN t.year ELSE t.year + 1

DayCount(b, t) ==
    IF DueThisYear(b, t)
    THEN DayOfYear(t.year, b.month, b.day) - DayOfYear(t.year, t.month, t.day)
    ELSE (YearLength(t.year) - DayOfYear(t.year, t.month, t.day))
         + DayOfYear(t.year + 1, b.month, b.day)

\* C3: for every valid (day, month) and every clock reading, daysUntil is in
\* 0..366 and is the number of days from today to the record's month/day in
\* this year, or in the following year when that day is strictly before today.
C3_DaysUntilIsDayCount ==
    Rendered /\ ValidMonthDay(rec[1].month, rec[1].day) =>
        /\ out[1].days \in 0..366
        /\ out[1].days = DayCount(rec[1], now)

C3_Witness ==
    /\ Rendered
    /\ rec[1].month = 2 /\ rec[1].day = 29
    /\ now.year = 2024 /\ now.month = 3 /\ now.day = 1
    /\ out[1].days = 365

\* C4: a record whose month and day are today's has daysUntil = 0 at every
\* time of day.
C4_TodayIsZero ==
    Rendered /\ rec[1].month = now.month /\ rec[1].day = now.day => out[1].days = 0

C4_Witness ==
    /\ Rendered
    /\ rec[1].month = now.month /\ rec[1].day = now.day
    /\ now.hour = 23
    /\ out[1].days = 0

\* C1 (as claimed): with a birth year, ageTurning is the year of the day that
\* daysUntil counts to, minus the birth year; 39, 39 and 40 for 5 May 1985 on
\* 2024-05-01, 2024-05-05 and 2024-05-06.
C1_AgeAtNextOccurrence ==
    Rendered /\ ValidMonthDay(rec[1].month, rec[1].day)
             /\ rec[1].year # None /\ rec[1].year # Some(0) =>
        out[1].turning = Some(OccurrenceYear(rec[1], now) - rec[1].year[1])

(***************************************************************************)
(* Strings and conversions used by the form.                               *)
(***************************************************************************)
RECURSIVE TrimStart(_), TrimEnd(_)
TrimStart(s) ==
    IF Len(s) > 0 /\ SubSeq(s, 1, 1) = " " THEN TrimStart(SubSeq(s, 2, Len(s))) ELSE s

TrimEnd(s) ==
    IF Len(s) > 0 /\ SubSeq(s, Len(s), Len(s)) = " "
    THEN TrimEnd(SubSeq(s, 1, Len(s) - 1)) ELSE s

\* String.prototype.trim()
Trim(s) == TrimEnd(TrimStart(s))

\* Number(s) for the value of an <input type="number"> or of the month
\* <select>: "" gives 0, a numeral gives its number.
Number(s) == IF s = "" THEN 0 ELSE CHOOSE n \in -9..9999 : ToString(n) = s

\* String(n)
String(n) == ToString(n)

(***************************************************************************)
(* The local cache (storage module) and JSON.                              *)
(***************************************************************************)
\* JSON.stringify of one Birthday: a key whose value is undefined is left out.
JsonObject(b) ==
    LET keys == {"id", "name", "day", "month", "timezone"}
                \cup (IF b.year = None THEN {} ELSE {"year"})
                \cup (IF b.photoUrl = None THEN {} ELSE {"photoUrl"})
    IN  [k \in keys |->
            CASE k = "id" -> b.id
              [] k = "name" -> b.name
              [] k = "day" -> b.day
              [] k = "month" -> b.month
              [] k = "timezone" -> b.timezone
              [] k = "year" -> b.year[1]
              [] k = "photoUrl" -> b.photoUrl[1]]

\* The Birthday read back from a parsed object: a missing key reads undefined.
FromJsonObject(o) ==
    [id |-> o.id, name |-> o.name, day |-> o.day, month |-> o.month,
     year |-> IF "year" \in DOMAIN o THEN Some(o.year) ELSE None,
     timezone |-> o.timezone,
     photoUrl |-> IF "photoUrl" \in DOMAIN o THEN Some(o.photoUrl) ELSE None]

JsonStringify(list) == [kind |-> "json", items |-> [i \in 1..Len(list) |-> JsonObject(list[i])]]

CacheAbsent == [kind |-> "absent"]
CacheCorrupt == [kind |-> "corrupt"]

\* loadBirthdays() in the browser: [] when the key is absent or JSON.parse throws.
loadBirthdays(raw) ==
    IF raw.kind = "absent" THEN <<>>
    ELSE IF raw.kind = "corrupt" THEN <<>>
    ELSE [i \in 1..Len(raw.items) |-> FromJsonObject(raw.items[i])]

\* saveBirthdays(list) in the browser: the new value of the storage key.
saveBirthdays(list) == JsonStringify(list)

(***************************************************************************)
(* The remote table and its helpers.                                       *)
(***************************************************************************)
\* The row that saveToCloud inserts: ?? null keeps null for undefined.
RowOf(b) ==
    [id |-> b.id, name |-> b.name, day |-> b.day, month |-> b.month,
     year |-> b.year, timezone |-> b.timezone, photo_url |-> b.photoUrl]

\* The Birthday that loadFromCloud maps a row to.
BirthdayOfRow(row) ==
    [id |-> row.id, name |-> row.name, day |-> row.day, month |-> row.month,
     year |-> row.year, timezone |-> row.timezone, photoUrl |-> row.photo_url]

\* .order("month").order("day"): ascending by month, then by day.
RowOrdered(r1, r2) == r1.month < r2.month \/ (r1.month = r2.month /\ r1.day <= r2.day)

\* Every answer the select can give for the table rows: rows of equal month and
\* day come in either order.
loadFromCloud(rows) ==
    {[i \in 1..Cardinality(rows) |-> BirthdayOfRow(f[i])] :
        f \in {g \in [1..Cardinality(rows) -> rows] :
                 /\ \A i, j \in 1..Cardinality(rows) : i # j => g[i] # g[j]
                 /\ \A i, j \in 1..Cardinality(rows) : i < j => RowOrdered(g[i], g[j])}}

\* The table after a write call that succeeded.
ApplyWrite(rows, req) ==
    CASE req.op = "insert" -> rows \cup {RowOf(req.birthday)}
      [] req.op = "update" ->
            {IF r.id = req.birthday.id
             THEN [RowOf(req.birthday) EXCEPT !.id = r.id] ELSE r : r \in rows}
      [] req.op = "delete" -> {r \in rows : r.id # req.id}

(***************************************************************************)
(* Status and error texts, in ASCII: without the leading emoji, ... for the  *)
(* ellipsis.                                                               *)
(***************************************************************************)
StatusChecking == "Checking Supabase..."
StatusLoaded == "Loaded from Supabase"
StatusLoadFailed == "Could not load from Supabase (showing local data)"

FailureStatus(op) ==
    CASE op = "insert" -> "Cloud save failed"
      [] op = "update" -> "Cloud update failed"
      [] op = "delete" -> "Cloud delete failed"

ErrorFillIn == "Please fill in name, day and month."

(***************************************************************************)
(* List helpers.                                                           *)
(***************************************************************************)
Ids(list) == {list[i].id : i \in 1..Len(list)}

\* Array.prototype.filter
RECURSIVE Filter(_, _)
Filter(list, id) ==
    IF list = <<>> THEN <<>>
    ELSE IF Head(list).id # id THEN <<Head(list)>> \o Filter(Tail(list), id)
    ELSE Filter(Tail(list), id)

\* x put behind every item whose key is not larger than its own.
RECURSIVE InsertByDays(_, _, _)
InsertByDays(x, sorted, today) ==
    IF sorted = <<>> THEN <<x>>
    ELSE IF daysUntil(Head(sorted), today) <= daysUntil(x, today)
    THEN <<Head(sorted)>> \o InsertByDays(x, Tail(sorted), today)
    ELSE <<x>> \o sorted

\* .sort((a, b) => daysUntil(a) - daysUntil(b)): stable, ascending.
RECURSIVE SortByDays(_, _)
SortByDays(list, today) ==
    IF list = <<>> THEN <<>>
    ELSE InsertByDays(list[Len(list)], SortByDays(SubSeq(list, 1, Len(list) - 1), today), today)

(***************************************************************************)
(* The form.                                                               *)
(***************************************************************************)
EmptyForm ==
    [name |-> "", day |-> "", month |-> "", year |-> "",
     timezone |-> "Asia/Tokyo", photoUrl |-> ""]

\* The submit event is dispatched only when the form's controls are valid:
\* <input type="number" min={1} max={31}> holds "" or a whole number in 1..31.
ConstraintsSatisfied(f) == f.day = "" \/ Number(f.day) \in 1..31

RequiredFieldsMissing_DayUnchecked(f) == Trim(f.name) = "" \/ f.month = ""

\* if (!trimmedName || !day || !month)
RequiredFieldsMissing(f) == Trim(f.name) = "" \/ f.day = "" \/ f.month = ""

\* const baseBirthday: Omit<Birthday, "id">
BaseBirthday(f) ==
    [name |-> Trim(f.name),
     day |-> Number(f.day),
     month |-> Number(f.month),
     year |-> IF f.year # "" THEN Some(Number(f.year)) ELSE None,
     timezone |-> Trim(f.timezone),
     photoUrl |-> IF Trim(f.photoUrl) # "" THEN Some(Trim(f.photoUrl)) ELSE None]

WithId(id, base) ==
    [id |-> id, name |-> base.name, day |-> base.day, month |-> base.month,
     year |-> base.year, timezone |-> base.timezone, photoUrl |-> base.photoUrl]

\* { ...b, ...baseBirthday }: every key of baseBirthday replaces b's; id stays.
Merge(b, base) == WithId(b.id, base)

\* uuidv4(): an identifier no record has had.
NewId == "new-" \o ToString(ops)

\* The fields the submit handler resets; timezone keeps its value.
ResetForm(f) == [EmptyForm EXCEPT !.timezone = f.timezone]

(***************************************************************************)
(* Spec: the HomePage component.                                           *)
(***************************************************************************)
Mounted == loadPc # "unmounted"

\* useEffect(() => { loadData() }, []) up to its await, then the save effect:
\* first for the initial [] and again for the list read from the cache.
Mount ==
    /\ loadPc = "unmounted"
    /\ LET cached == loadBirthdays(cache)
       IN  /\ birthdays' = cached
           /\ cache' = saveBirthdays(cached)
    /\ loadPc' = "requested"
    /\ UNCHANGED <<now, rec, out, form, editingId, error, errorTimers, reported,
                   supabaseStatus, remote, inflight, ops, cache0, created>>

\* loadData after its await, the select having succeeded: setBirthdays(cloudData),
\* the status, and the save effect.  The answer is the table's rows as they
\* are when the call resolves.
LoadResolved ==
    /\ loadPc = "requested"
    /\ \E cloudData \in loadFromCloud(remote) :
          /\ birthdays' = cloudData
          /\ cache' = saveBirthdays(cloudData)
    /\ supabaseStatus' = StatusLoaded
    /\ loadPc' = "loaded"
    /\ UNCHANGED <<now, rec, out, form, editingId, error, errorTimers, reported,
                   remote, inflight, ops, created>>
    /\ cache0' = None

LoadRejected_ClearsList ==
    /\ loadPc = "requested"
    /\ supabaseStatus' = StatusLoadFailed
    /\ loadPc' = "failed"
    /\ birthdays' = <<>>
    /\ cache' = saveBirthdays(<<>>)
    /\ UNCHANGED <<now, rec, out, form, editingId, error, errorTimers,
                   reported, remote, inflight, ops, cache0,
                   created>>

\* loadData's catch: the select failed.
LoadRejected ==
    /\ loadPc = "requested"
    /\ supabaseStatus' = StatusLoadFailed
    /\ loadPc' = "failed"
    /\ UNCHANGED <<now, rec, out, birthdays, form, editingId, error, errorTimers,
                   reported, cache, remote, inflight, ops, cache0,
                   created>>

\* What the user may have typed into the form (onChange of the six controls).
FormInputs ==
    {[name |-> " Cy ", day |-> "5", month |-> "5", year |-> "",
      timezone |-> " UTC", photoUrl |-> " "],
     [name |-> "  ", day |-> "5", month |-> "5", year |-> "1985",
      timezone |-> "Asia/Tokyo", photoUrl |-> ""],
     [name |-> "Ed", day |-> "", month |-> "5", year |-> "",
      timezone |-> "Asia/Tokyo", photoUrl |-> ""],
     [name |-> "Ed", day |-> "45", month |-> "5", year |-> "",
      timezone |-> "Asia/Tokyo", photoUrl |-> ""]}

Type(f) ==
    /\ Mounted
    /\ ops < MaxOps
    /\ form # f
    /\ form' = f
    /\ UNCHANGED <<now, rec, out, birthdays, editingId, error, errorTimers, reported,
                   supabaseStatus, loadPc, cache, remote, inflight, ops,
                   cache0, created>>

\* handleAdd, for a form the browser let through.
handleAdd ==
    IF RequiredFieldsMissing(form)
    THEN /\ error' = Some(ErrorFillIn)
         /\ errorTimers' = errorTimers + 1
         /\ UNCHANGED <<birthdays, form, editingId, cache, inflight, created>>
    ELSE /\ IF editingId # None
            THEN LET updated == SortByDays(
                         [i \in 1..Len(birthdays) |->
                            IF birthdays[i].id = editingId[1]
                            THEN Merge(birthdays[i], BaseBirthday(form))
                            ELSE birthdays[i]], now)
                     edited == {b \in Range(updated) : b.id = editingId[1]}
                 IN  /\ birthdays' = updated
                     /\ cache' = saveBirthdays(updated)
                     /\ inflight' = inflight \cup
                            {[op |-> "update", birthday |-> b, seq |-> ops] : b \in edited}
                     /\ UNCHANGED created
            ELSE LET newBirthday == WithId(NewId, BaseBirthday(form))
                     updated == SortByDays(birthdays \o <<newBirthday>>, now)
                 IN  /\ birthdays' = updated
                     /\ cache' = saveBirthdays(updated)
                     /\ inflight' = inflight \cup
                            {[op |-> "insert", birthday |-> newBirthday, seq |-> ops]}
                     /\ created' = created \cup {newBirthday.id}
         /\ form' = ResetForm(form)
         /\ editingId' = None
         /\ error' = None
         /\ UNCHANGED errorTimers

\* The submit button: the browser validates the controls, then calls handleAdd.
SubmitForm ==
    /\ Mounted
    /\ ops < MaxOps
    /\ ops' = ops + 1
    /\ IF ConstraintsSatisfied(form)
       THEN /\ handleAdd
            /\ reported' = None
       ELSE /\ reported' = Some("day")
            /\ UNCHANGED <<birthdays, form, editingId, error, errorTimers, cache,
                           inflight, created>>
    /\ UNCHANGED <<now, rec, out, supabaseStatus, loadPc, remote>>
    /\ cache0' = None

\* setTimeout(() => setError(null), 3000)
ErrorTimeout ==
    /\ errorTimers > 0
    /\ error' = None
    /\ errorTimers' = errorTimers - 1
    /\ UNCHANGED <<now, rec, out, birthdays, form, editingId, reported,
                   supabaseStatus, loadPc, cache, remote, inflight, ops,
                   cache0, created>>

handleDelete(id) ==
    /\ Mounted
    /\ ops < MaxOps
    /\ id \in Ids(birthdays)
    /\ ops' = ops + 1
    /\ birthdays' = Filter(birthdays, id)
    /\ cache' = saveBirthdays(Filter(birthdays, id))
    /\ inflight' = inflight \cup {[op |-> "delete", id |-> id, seq |-> ops]}
    /\ created' = created \ {id}
    /\ UNCHANGED <<now, rec, out, form, editingId, error, errorTimers, reported,
                   supabaseStatus, loadPc, remote>>
    /\ cache0' = None

handleEdit(b) ==
    /\ Mounted
    /\ ops < MaxOps
    /\ b \in Range(birthdays)
    /\ editingId # Some(b.id)
    /\ editingId' = Some(b.id)
    /\ form' = [name |-> b.name,
                day |-> String(b.day),
                month |-> String(b.month),
                year |-> IF b.year = None \/ b.year = Some(0) THEN "" ELSE String(b.year[1]),
                timezone |-> b.timezone,
                photoUrl |-> IF b.photoUrl = None THEN "" ELSE b.photoUrl[1]]
    /\ UNCHANGED <<now, rec, out, birthdays, error, errorTimers, reported,
                   supabaseStatus, loadPc, cache, remote, inflight, ops,
                   cache0, created>>

\* The "Cancel edit" button.
CancelEdit ==
    /\ editingId # None
    /\ editingId' = None
    /\ form' = ResetForm(form)
    /\ UNCHANGED <<now, rec, out, birthdays, error, errorTimers, reported,
                   supabaseStatus, loadPc, cache, remote, inflight, ops,
                   cache0, created>>

\* A write call succeeds: the table changes, the promise resolves, no handler runs.
WriteResolved(req) ==
    /\ req \in inflight
    /\ remote' = ApplyWrite(remote, req)
    /\ inflight' = inflight \ {req}
    /\ UNCHANGED <<now, rec, out, birthdays, form, editingId, error, errorTimers,
                   reported, supabaseStatus, loadPc, cache, ops, cache0,
                   created>>

WriteRejected_Retries(req) ==
    /\ req \in inflight
    /\ supabaseStatus' = FailureStatus(req.op)
    /\ inflight' = (inflight \ {req}) \cup
            (IF req.seq < MaxOps THEN {[req EXCEPT !.seq = req.seq + MaxOps]} ELSE {})
    /\ UNCHANGED <<now, rec, out, birthdays, form, editingId, error, errorTimers,
                   reported, loadPc, cache, remote, ops, cache0, created>>

\* A write call fails: the .catch of saveToCloud, updateInCloud or deleteFromCloud.
WriteRejected(req) ==
    /\ req \in inflight
    /\ supabaseStatus' = FailureStatus(req.op)
    /\ inflight' = inflight \ {req}
    /\ UNCHANGED <<now, rec, out, birthdays, form, editingId, error, errorTimers,
                   reported, loadPc, cache, remote, ops, cache0, created>>

StartClock == [year |-> 2024, month |-> 5, day |-> 5, hour |-> 12]

\* The days the page is open: 5 May 2024 and the day after.
Clocks == {StartClock, NextDay(StartClock)}

\* Midnight passes while the page is open.
Tick ==
    /\ NextDay(now) \in Clocks
    /\ now' = NextDay(now)
    /\ UNCHANGED calcVars
    /\ UNCHANGED appVars

(***************************************************************************)
(* What the cache and the table hold when the page is opened.              *)
(***************************************************************************)
Ann == [id |-> "a", name |-> "Ann", day |-> 5, month |-> 1, year |-> Some(1990),
        timezone |-> "Asia/Tokyo", photoUrl |-> None]

Bob == [id |-> "b", name |-> "Bob", day |-> 1, month |-> 7, year |-> None,
        timezone |-> "UTC", photoUrl |-> Some("b.png")]

\* The lists an earlier visit may have left in the cache.
InitialStored == {<<Bob, Ann>>}

InitialCaches == {CacheAbsent, CacheCorrupt} \cup {saveBirthdays(l) : l \in InitialStored}

\* The records a cache of InitialCaches holds: none when absent or unparseable.
HeldBy(raw) ==
    IF raw = CacheAbsent \/ raw = CacheCorrupt THEN <<>>
    ELSE CHOOSE l \in InitialStored : saveBirthdays(l) = raw

Cat == [id |-> "c", name |-> "Cat", day |-> 6, month |-> 5, year |-> Some(2001),
        timezone |-> "UTC", photoUrl |-> None]

InitialRemotes == {{RowOf(Ann), RowOf(Bob), RowOf(Cat)}}

Init ==
    /\ now = StartClock
    /\ rec = None
    /\ out = None
    /\ birthdays = <<>>
    /\ form = EmptyForm
    /\ editingId = None
    /\ error = None
    /\ errorTimers = 0
    /\ reported = None
    /\ supabaseStatus = StatusChecking
    /\ loadPc = "unmounted"
    /\ cache \in InitialCaches
    /\ remote \in InitialRemotes
    /\ inflight = {}
    /\ ops = 0
    /\ cache0 = HeldBy(cache)
    /\ created = {}

Next ==
    \/ Mount
    \/ LoadResolved
    \/ LoadRejected
    \/ \E f \in FormInputs : Type(f)
    \/ SubmitForm
    \/ ErrorTimeout
    \/ \E id \in Ids(birthdays) : handleDelete(id)
    \/ \E b \in Range(birthdays) : handleEdit(b)
    \/ CancelEdit
    \/ \E req \in inflight : WriteResolved(req)
    \/ \E req \in inflight : WriteRejected(req)
    \/ Tick

Spec == Init /\ [][Next]_vars

(***************************************************************************)
(* Claims about the calculator's label (CalcSpec).                         *)
(***************************************************************************)
CanonicalMonth(m) ==
    CASE m = 1 -> "January" [] m = 2 -> "February" [] m = 3 -> "March"
      [] m = 4 -> "April" [] m = 5 -> "May" [] m = 6 -> "June"
      [] m = 7 -> "July" [] m = 8 -> "August" [] m = 9 -> "September"
      [] m = 10 -> "October" [] m = 11 -> "November" [] m = 12 -> "December"

\* C8 (as claimed): the label is "<day> <month name>" for a month in 1..12 and
\* the fallback string "Month <n>" for any other month.
C8_FormatAsClaimed ==
    Rendered =>
        out[1].label = IF rec[1].month \in 1..12
                       THEN ToString(rec[1].day) \o " " \o CanonicalMonth(rec[1].month)
                       ELSE "Month " \o ToString(rec[1].month)

\* C8 (amended): the label is the day, a space, and then the month name for a
\* month in 1..12 or the fallback label "Month <n>" for any other month.
C8_FormatWithDayPrefix ==
    Rendered =>
        /\ out[1].label =
              ToString(rec[1].day) \o " " \o
                 (IF rec[1].month \in 1..12 THEN CanonicalMonth(rec[1].month)
                  ELSE "Month " \o ToString(rec[1].month))
        /\ (rec[1].day = 5 /\ rec[1].month = 5 => out[1].label = "5 May")
        /\ (rec[1].day = 15 /\ rec[1].month = 8 => out[1].label = "15 August")
        /\ (rec[1].day = 5 /\ rec[1].month = 13 => out[1].label = "5 Month 13")

C8_Witness == Rendered /\ rec[1].month = 13 /\ out[1].label = "5 Month 13"

(***************************************************************************)
(* Claims about the component (Spec).                                      *)
(***************************************************************************)
SortedByDays(list, today) ==
    \A i \in 1..(Len(list) - 1) : daysUntil(list[i], today) <= daysUntil(list[i + 1], today)

\* C2 (as claimed): in every reachable state the displayed list is in
\* ascending order of daysUntil at the current date.
C2_DisplaySorted == SortedByDays(birthdays, now)

\* C5: when a remote insert, update or delete fails, the list and the cache
\* keep what they hold, the status becomes that call's failure message, the
\* table is as it was, and the call is dropped without another being issued.
C5_WriteFailureKeepsLocal ==
    [][\A req \in inflight :
          WriteRejected(req) =>
              /\ birthdays' = birthdays
              /\ cache' = cache
              /\ remote' = remote
              /\ supabaseStatus' = FailureStatus(req.op)
              /\ inflight' = inflight \ {req}]_vars

C5_Witness ==
    /\ supabaseStatus = "Cloud save failed"
    /\ \E id \in created :
          /\ id \in Ids(birthdays)
          /\ id \in Ids(loadBirthdays(cache))
          /\ \A r \in remote : r.id # id
          /\ inflight = {}

\* C6: when the startup read of the table fails, the handler leaves the list
\* and the cache alone and sets the load-failure status; until the user submits
\* or deletes, the list is the records the cache held before startup (none for
\* an absent or unparseable cache) and the cache holds exactly those records.
C6_LoadFailureShowsCache ==
    /\ [](loadPc = "failed" /\ ops = 0 =>
            /\ birthdays = cache0
            /\ cache = saveBirthdays(cache0)
            /\ supabaseStatus = StatusLoadFailed)
    /\ [][LoadRejected =>
            /\ birthdays' = birthdays
            /\ cache' = cache
            /\ supabaseStatus' = StatusLoadFailed]_vars

C6_Witness ==
    /\ loadPc = "failed"
    /\ ops = 0
    /\ birthdays = <<Bob, Ann>>
    /\ cache = saveBirthdays(<<Bob, Ann>>)
    /\ supabaseStatus = StatusLoadFailed

WellFormed(b) == b.name # "" /\ b.day \in 1..31 /\ b.month \in 1..12

FormAcceptable(f) ==
    /\ Trim(f.name) # ""
    /\ f.day # "" /\ Number(f.day) \in 1..31
    /\ f.month # "" /\ Number(f.month) \in 1..12

\* C7: every record a form submission puts into the list has a non-empty name,
\* a day in 1..31 and a month in 1..12; a submission that does not satisfy
\* this leaves the list, the cache, the table and the write calls unchanged
\* and shows a message (the form's error, or the browser's on the day field).
C7_SubmissionValidated ==
    [][SubmitForm =>
          /\ \A b \in Range(birthdays') \ Range(birthdays) : WellFormed(b)
          /\ (~FormAcceptable(form) =>
                /\ birthdays' = birthdays
                /\ cache' = cache
                /\ remote' = remote
                /\ inflight' = inflight
                /\ (error' = Some(ErrorFillIn) \/ reported' = Some("day")))]_vars

C7_Witness ==
    /\ error = Some(ErrorFillIn)
    /\ reported = None
    /\ created # {}
    /\ \A id \in created : \E b \in Range(birthdays) : b.id = id /\ WellFormed(b)

\* C9 (as claimed): submitting while editing X replaces X by a record with X's
\* id and every other field from the form, keeps every other record and the
\* number of records, and issues exactly one update for X; when X is no longer
\* in the list, the list is unchanged and no remote call is issued.
C9_EditReplacesWholesale ==
    [][SubmitForm /\ ConstraintsSatisfied(form) /\ ~RequiredFieldsMissing(form)
                  /\ editingId # None =>
          LET x == editingId[1]
              replaced == WithId(x, BaseBirthday(form))
          IN  IF x \in Ids(birthdays)
              THEN /\ Len(birthdays') = Len(birthdays)
                   /\ {b \in Range(birthdays') : b.id = x} = {replaced}
                   /\ {b \in Range(birthdays') : b.id # x}
                        = {b \in Range(birthdays) : b.id # x}
                   /\ \E req \in inflight' :
                         /\ req.op = "update" /\ req.birthday = replaced
                         /\ inflight' = inflight \cup {req}
                         /\ req \notin inflight
              ELSE /\ birthdays' = birthdays
                   /\ inflight' = inflight]_vars

\* C10 (as claimed): a record created by a form submission stays in the list
\* and in the cache until the user deletes it.
C10_CreatedStays ==
    \A id \in created : id \in Ids(birthdays) /\ id \in Ids(loadBirthdays(cache))
====
